---- MODULE Spec2Model ----
(***************************************************************************)
(* gno: repository statistics (src/src/main.rs, src/src/stats.rs).         *)
(*                                                                         *)
(* run() discovers the repository and calls four collectors in sequence:   *)
(* get_total_commits, get_branch_count, get_contributor_count and          *)
(* get_repository_size, then display_statistics.  Every `?` of the source  *)
(* is an early return of Err, which main() turns into exit status 1.       *)
(*                                                                         *)
(* The repository is the environment: a commit DAG, an author signature on *)
(* every commit, a table of references, and at most one fault (an          *)
(* inaccessible store, an unreadable commit object, ...).  CommitIDs are   *)
(* 1..commits and a commit's parents have smaller ids, which makes the     *)
(* ancestry graph acyclic by construction.                                 *)
(*                                                                         *)
(* The revision walk (repo.revwalk(), push, iteration) is modelled as a    *)
(* work list: a bag of CommitIDs seeded with the heads; a step takes any   *)
(* element out of it, and the parents of a commit taken for the first time *)
(* are put into it, duplicates included.  The HashSet `visited` of the     *)
(* source decides what a yielded id contributes.                           *)
(***************************************************************************)
EXTENDS Integers, Sequences, FiniteSets

\* Bounds of the model.
NumCommits == 3
NumRefs == 2
MaxUpdates == 1
MaxRuns == 2

VARIABLES
    commits,            \* number of commit objects in the object store
    parents,            \* parents[c]: set of parent CommitIDs of commit c
    author,             \* author[c]: the author signature stored in commit c
    refs,               \* refs[r]: the entry of reference r
    fault,              \* the fault of the environment, if any
    pc,                 \* position of run()
    heads,              \* Vec `heads` of the collector being executed
    worklist,           \* the revwalk's pending CommitIDs (a bag)
    visited,            \* HashSet `visited` of the collector being executed
    count,              \* `count` of get_total_commits
    contributors,       \* HashSet `contributors` of get_contributor_count
    total_commits,      \* run(): result of get_total_commits
    branch_count,       \* run(): result of get_branch_count
    contributor_count,  \* run(): result of get_contributor_count
    repo_size,          \* run(): result of get_repository_size
    displayed,          \* what display_statistics printed, if it ran
    exit_code,          \* exit status of main(): -1 while running
    counted,            \* history: how often each CommitID passed visited.insert
    snapshot,           \* history: the head sets the two walks were seeded with
    refHistory,         \* history: every reference table the repository had
    updates,            \* number of reference updates by other processes
    runs,               \* number of invocations of the program so far
    previous            \* what the previous invocation printed

vars == <<commits, parents, author, refs, fault, pc, heads, worklist, visited,
          count, contributors, total_commits, branch_count, contributor_count,
          repo_size, displayed, exit_code, counted, snapshot, refHistory,
          updates, runs, previous>>

repoVars == <<commits, parents, author, fault>>
histVars == <<updates, runs, previous>>

-----------------------------------------------------------------------------
\* Values

RefNames == 1..NumRefs
CommitIDs == 1..commits

\* Result<usize, _>: not yet returned, Ok(n), Err(_)
NotRun == [st |-> "none", val |-> 0]
Ok(n) == [st |-> "ok", val |-> n]
Err == [st |-> "err", val |-> 0]

\* Option<&str>: Some(s) with s a sequence of characters, or None
Some(s) == [some |-> TRUE, s |-> s]
None == [some |-> FALSE, s |-> <<>>]

\* Reference entries
Absent == [kind |-> "absent", oid |-> 0]
Symbolic == [kind |-> "symbolic", oid |-> 0]
Unreadable == [kind |-> "unreadable", oid |-> 0]
Direct(c) == [kind |-> "direct", oid |-> c]
\* the id of an object that is no commit (a blob or a tree); a reference may
\* point at it: Direct(NonCommitOid)
NonCommitOid == 0

NoFault == [kind |-> "none", at |-> 0]
Fault(k, x) == [kind |-> k, at |-> x]

\* Author signatures.  `parsed` is whether the commit object parses as a whole
\* (repo.find_commit); name and email are Option<&str>: None when the bytes
\* are not valid UTF-8.
Sig(n, e) == [parsed |-> TRUE, name |-> n, email |-> e]
Malformed == [parsed |-> FALSE, name |-> None, email |-> None]

\* a byte that is not valid UTF-8
BadByte == "0xFF"

\* Signature::name() / Signature::email(): str::from_utf8(bytes).ok()
Utf8(bytes) ==
    IF \E i \in DOMAIN bytes : bytes[i] = BadByte THEN None ELSE Some(bytes)

\* the last position of character ch in line, 0 when it does not occur
LastIndex(line, ch) ==
    LET at == {i \in DOMAIN line : line[i] = ch}
    IN IF at = {} THEN 0 ELSE CHOOSE i \in at : \A j \in at : j <= i

RECURSIVE TrimRight(_)
\* s without the spaces at its end
TrimRight(s) ==
    IF s # <<>> /\ s[Len(s)] = " " THEN TrimRight(SubSeq(s, 1, Len(s) - 1)) ELSE s

\* commit.author() on the author line of a commit object: the email is the
\* text between the last '<' and the last '>' of the line, the name the text
\* before that '<'; a line without them makes the commit unparsable
ParseSignature(line) ==
    LET lt == LastIndex(line, "<")
        gt == LastIndex(line, ">")
    IN IF lt = 0 \/ gt = 0 \/ gt <= lt THEN Malformed
       ELSE Sig(Utf8(TrimRight(SubSeq(line, 1, lt - 1))),
                Utf8(SubSeq(line, lt + 1, gt - 1)))

\* the author lines the model draws from
AuthorLines ==
    { <<"a", " ", "<", "x", ">">>,
      <<"a", " ", "<", "y", ">">>,
      <<"a", " ", "<", "x", " ", "<", "y", ">">>,
      <<"a", " ", "<", "x", "y", ">">>,
      <<"a", "x", " ", "<", "y", ">">>,
      <<BadByte, " ", "<", "x", ">">>,
      <<"a", " ", "<", BadByte, ">">>,
      <<"a", " ", "x">> }

AuthorSigs == {ParseSignature(line) : line \in AuthorLines}

\* the authors of the histories whose shape varies: two people take turns
DefaultAuthor(c) ==
    IF c % 2 = 1 THEN ParseSignature(<<"a", " ", "<", "x", ">">>)
                 ELSE ParseSignature(<<"b", " ", "<", "x", ">">>)

-----------------------------------------------------------------------------
\* The repository: reachability in the history graph

RECURSIVE Ancestors(_)
\* the commits reachable from c along parent links, c included
Ancestors(c) == {c} \cup UNION {Ancestors(p) : p \in parents[c]}

\* the commits reachable from a set of heads
Reachable(hs) == UNION {Ancestors(h) : h \in hs}

Range(f) == {f[i] : i \in DOMAIN f}

\* all sequences that list every element of S once
Orders(S) == {o \in [1..Cardinality(S) -> S] : Range(o) = S}

EmptyBag == [c \in CommitIDs |-> 0]

-----------------------------------------------------------------------------
\* Pure steps of the collectors

\* reference.target(): the id a direct reference holds, nothing for a
\* symbolic one
Target(e) == IF e.kind = "direct" THEN {e.oid} ELSE {}

\* `let reference = reference?`: the entry the iterator yields is an Err
EntryFails(e) == e.kind = "unreadable"

\* the references the iterator yields
Listed == {r \in RefNames : refs[r].kind # "absent"}

\* faulty variant: only the first reference enumerated gives a head
HeadsOfFirst(order) ==
    IF order = <<>> \/ Target(refs[Head(order)]) = {} THEN <<>>
    ELSE <<CHOOSE x \in Target(refs[Head(order)]) : TRUE>>

\* the loop over the references: the targets, in the order of enumeration
RECURSIVE HeadsOf(_)
HeadsOf(order) ==
    IF order = <<>> THEN <<>>
    ELSE LET t == Target(refs[Head(order)])
         IN (IF t = {} THEN <<>> ELSE <<CHOOSE x \in t : TRUE>>)
            \o HeadsOf(Tail(order))

\* faulty variant: an unreadable commit object goes unnoticed
ReadCommitAlways(c) == TRUE

\* the object store can produce commit c
ReadCommit(c) == ~(fault.kind = "corrupt" /\ fault.at = c)

\* revwalk.push(head)?: the id must name a commit that can be read
PushFails(h) == h = NonCommitOid \/ ~ReadCommit(h)

\* faulty variant: every id yielded is taken as new
InsertAlways(oid, vis) == TRUE

\* visited.insert(oid): TRUE when oid was not in the set
Insert(oid, vis) == oid \notin vis

\* faulty variant: the id yielded stays on the work list
TakeNothing(wl, c) == wl

\* the work list after c was taken out of it
Take(wl, c) == [wl EXCEPT ![c] = @ - 1]

\* the work list after every parent of c was put into it
PushParents(wl, c) == [d \in DOMAIN wl |-> IF d \in parents[c] THEN wl[d] + 1 ELSE wl[d]]

\* the work list seeded with the heads
RECURSIVE Seed(_)
Seed(hs) ==
    IF hs = <<>> THEN EmptyBag
    ELSE [Seed(Tail(hs)) EXCEPT ![Head(hs)] = @ + 1]

Pending(wl) == {c \in DOMAIN wl : wl[c] > 0}

\* Option::unwrap_or("")
UnwrapOr(opt) == IF opt.some THEN opt.s ELSE <<>>

\* faulty variant: format!("{}{}", name, email)
FormatNoDelimiter(name, email) == name \o email

\* format!("{} <{}>", name, email)
Format(name, email) == name \o <<" ", "<">> \o email \o <<">">>

\* the key get_contributor_count inserts for a commit it could find
AuthorKey(a) == Format(UnwrapOr(a.name), UnwrapOr(a.email))

\* repo.find_commit(oid) is Ok
FindCommit(c) == ReadCommit(c) /\ author[c].parsed

\* the contributor set after commit c passed visited.insert
AddContributor(set, c) ==
    IF FindCommit(c) THEN set \cup {AuthorKey(author[c])} ELSE set

\* refs/heads/*: the odd reference names; the even ones are tags
IsLocalBranch(r) == r % 2 = 1

\* the unit get_repository_size prints a byte count in
SizeUnit(size) ==
    IF size < 1024 THEN "B"
    ELSE IF size < 1024 * 1024 THEN "KB"
    ELSE IF size < 1024 * 1024 * 1024 THEN "MB"
    ELSE "GB"

\* byte counts of the metadata directory the model draws from
DirSizes == {512, 2048}

\* n.to_string(): the decimal digits of n
RECURSIVE DecimalDigits(_)
DecimalDigits(n) ==
    LET digit(d) == <<"0", "1", "2", "3", "4", "5", "6", "7", "8", "9">>[d + 1]
    IN IF n < 10 THEN <<digit(n)>>
       ELSE Append(DecimalDigits(n \div 10), digit(n % 10))

\* format_number: a comma before every group of three digits
FormatNumber(n) ==
    LET chars == DecimalDigits(n)
        F[i \in 0..Len(chars)] ==
            IF i = 0 THEN <<>>
            ELSE LET sep == IF i - 1 > 0 /\ (Len(chars) - (i - 1)) % 3 = 0
                            THEN <<",">> ELSE <<>>
                 IN F[i - 1] \o sep \o <<chars[i]>>
    IN F[Len(chars)]

NotDisplayed == [shown |-> FALSE, commits |-> <<>>, branches |-> 0,
                 contributors |-> 0, size |-> 0, unit |-> ""]

NoPrevious == [ran |-> FALSE, total |-> NotRun, contributors |-> NotRun]

-----------------------------------------------------------------------------
\* Initial states: the repositories the program is run on

Entries == {Absent, Symbolic, Unreadable} \cup {Direct(c) : c \in 0..commits}

Faults ==
    {NoFault, Fault("discover", 0), Fault("store", 0), Fault("fs", 0)}
        \cup {Fault("corrupt", c) : c \in CommitIDs}

BadRefs == {r \in RefNames : refs[r] \in {Unreadable, Direct(NonCommitOid)}}

\* any history DAG, any reference table, at most one fault
InitGraph ==
    /\ commits \in 0..NumCommits
    /\ parents \in [1..commits -> SUBSET (1..NumCommits)]
    /\ \A c \in 1..commits : parents[c] \subseteq 1..(c - 1)
    /\ author = [c \in 1..commits |-> DefaultAuthor(c)]
    /\ refs \in [RefNames -> Entries]
    /\ fault \in Faults
    /\ Cardinality(BadRefs) + (IF fault = NoFault THEN 0 ELSE 1) <= 1

\* a linear history under one branch, any author on any commit
InitAuthors ==
    /\ commits \in 1..NumCommits
    /\ parents = [c \in 1..commits |-> IF c = 1 THEN {} ELSE {c - 1}]
    /\ author \in [1..commits -> AuthorSigs]
    /\ refs = [r \in RefNames |-> IF r = 1 THEN Direct(commits) ELSE Absent]
    /\ fault = NoFault

Init ==
    /\ InitGraph \/ InitAuthors
    /\ pc = "start"
    /\ heads = <<>>
    /\ worklist = EmptyBag
    /\ visited = {}
    /\ count = 0
    /\ contributors = {}
    /\ total_commits = NotRun
    /\ branch_count = NotRun
    /\ contributor_count = NotRun
    /\ repo_size = NotRun
    /\ displayed = NotDisplayed
    /\ exit_code = -1
    /\ counted = EmptyBag
    /\ snapshot = [total |-> {}, contributors |-> {}]
    /\ refHistory = {refs}
    /\ updates = 0
    /\ runs = 1
    /\ previous = NoPrevious

-----------------------------------------------------------------------------
\* run() and the collectors

\* `?` on an Err, then main(): eprintln and exit(1)
Fail ==
    /\ pc' = "done"
    /\ exit_code' = 1

\* faulty variant: a repository without references is an error
EnumerationFailsWhenEmpty ==
    fault.kind = "store" \/ Listed = {} \/ \E r \in Listed : EntryFails(refs[r])

\* repo.references()? and the `reference?` of the loop
EnumerationFails ==
    fault.kind = "store" \/ \E r \in Listed : EntryFails(refs[r])

\* Repository::discover(".")?
Discover ==
    /\ pc = "start"
    /\ IF fault.kind = "discover"
       THEN Fail
       ELSE pc' = "total_refs" /\ UNCHANGED exit_code
    /\ UNCHANGED <<repoVars, histVars, refs, refHistory, heads, worklist,
                   visited, count, contributors, total_commits, branch_count,
                   contributor_count, repo_size, displayed, counted, snapshot>>

\* get_total_commits: the locals and the loop over the references
TotalReferences ==
    /\ pc = "total_refs"
    /\ count' = 0
    /\ visited' = {}
    /\ counted' = EmptyBag
    /\ IF EnumerationFails
       THEN /\ total_commits' = Err
            /\ Fail
            /\ UNCHANGED <<heads, snapshot>>
       ELSE /\ \E order \in Orders(Listed) : heads' = HeadsOf(order)
            /\ snapshot' = [snapshot EXCEPT !.total = Range(heads')]
            /\ pc' = "total_push"
            /\ UNCHANGED <<total_commits, exit_code>>
    /\ UNCHANGED <<repoVars, histVars, refs, refHistory, worklist,
                   contributors, branch_count, contributor_count, repo_size,
                   displayed>>

\* get_total_commits: repo.revwalk() and the loop of revwalk.push(head)?
TotalPush ==
    /\ pc = "total_push"
    /\ IF \E i \in DOMAIN heads : PushFails(heads[i])
       THEN /\ total_commits' = Err
            /\ Fail
            /\ UNCHANGED <<heads, worklist>>
       ELSE /\ worklist' = Seed(heads)
            /\ heads' = <<>>
            /\ pc' = "total_walk"
            /\ UNCHANGED <<total_commits, exit_code>>
    /\ UNCHANGED <<repoVars, histVars, refs, refHistory, visited, count,
                   contributors, branch_count, contributor_count, repo_size,
                   displayed, counted, snapshot>>

\* get_total_commits: one iteration of `for oid in revwalk`
TotalWalk ==
    /\ pc = "total_walk"
    /\ \E c \in Pending(worklist) :
        IF ~ReadCommit(c)
        THEN /\ total_commits' = Err
             /\ Fail
             /\ UNCHANGED <<worklist, visited, count, counted>>
        ELSE /\ IF Insert(c, visited)
                THEN /\ visited' = visited \cup {c}
                     /\ count' = count + 1
                     /\ counted' = [counted EXCEPT ![c] = @ + 1]
                     /\ worklist' = PushParents(Take(worklist, c), c)
                ELSE /\ worklist' = Take(worklist, c)
                     /\ UNCHANGED <<visited, count, counted>>
             /\ UNCHANGED <<pc, total_commits, exit_code>>
    /\ UNCHANGED <<repoVars, histVars, refs, refHistory, heads, contributors,
                   branch_count, contributor_count, repo_size, displayed,
                   snapshot>>

\* get_total_commits: the revwalk is exhausted, Ok(count)
TotalReturn ==
    /\ pc = "total_walk"
    /\ Pending(worklist) = {}
    /\ total_commits' = Ok(count)
    /\ pc' = "branches"
    /\ UNCHANGED <<repoVars, histVars, refs, refHistory, heads, worklist,
                   visited, count, contributors, branch_count,
                   contributor_count, repo_size, displayed, exit_code, counted,
                   snapshot>>

\* get_branch_count: the local branches, each `branch?`
BranchCount ==
    /\ pc = "branches"
    /\ IF fault.kind = "store"
          \/ \E r \in Listed : IsLocalBranch(r) /\ EntryFails(refs[r])
       THEN /\ branch_count' = Err
            /\ Fail
       ELSE /\ branch_count' = Ok(Cardinality({r \in Listed : IsLocalBranch(r)}))
            /\ pc' = "contrib_refs"
            /\ UNCHANGED exit_code
    /\ UNCHANGED <<repoVars, histVars, refs, refHistory, heads, worklist,
                   visited, count, contributors, total_commits,
                   contributor_count, repo_size, displayed, counted, snapshot>>

\* get_contributor_count: the locals and the loop over the references
ContribReferences ==
    /\ pc = "contrib_refs"
    /\ contributors' = {}
    /\ visited' = {}
    /\ counted' = EmptyBag
    /\ IF EnumerationFails
       THEN /\ contributor_count' = Err
            /\ Fail
            /\ UNCHANGED <<heads, snapshot>>
       ELSE /\ \E order \in Orders(Listed) : heads' = HeadsOf(order)
            /\ snapshot' = [snapshot EXCEPT !.contributors = Range(heads')]
            /\ pc' = "contrib_push"
            /\ UNCHANGED <<contributor_count, exit_code>>
    /\ UNCHANGED <<repoVars, histVars, refs, refHistory, worklist, count,
                   total_commits, branch_count, repo_size, displayed>>

\* get_contributor_count: repo.revwalk() and the loop of revwalk.push(head)?
ContribPush ==
    /\ pc = "contrib_push"
    /\ IF \E i \in DOMAIN heads : PushFails(heads[i])
       THEN /\ contributor_count' = Err
            /\ Fail
            /\ UNCHANGED <<heads, worklist>>
       ELSE /\ worklist' = Seed(heads)
            /\ heads' = <<>>
            /\ pc' = "contrib_walk"
            /\ UNCHANGED <<contributor_count, exit_code>>
    /\ UNCHANGED <<repoVars, histVars, refs, refHistory, visited, count,
                   contributors, total_commits, branch_count, repo_size,
                   displayed, counted, snapshot>>

\* get_contributor_count: one iteration of `for oid in revwalk`
ContribWalk ==
    /\ pc = "contrib_walk"
    /\ \E c \in Pending(worklist) :
        IF ~ReadCommit(c)
        THEN /\ contributor_count' = Err
             /\ Fail
             /\ UNCHANGED <<worklist, visited, contributors, counted>>
        ELSE /\ IF Insert(c, visited)
                THEN /\ visited' = visited \cup {c}
                     /\ counted' = [counted EXCEPT ![c] = @ + 1]
                     /\ contributors' = AddContributor(contributors, c)
                     /\ worklist' = PushParents(Take(worklist, c), c)
                ELSE /\ worklist' = Take(worklist, c)
                     /\ UNCHANGED <<visited, contributors, counted>>
             /\ UNCHANGED <<pc, contributor_count, exit_code>>
    /\ UNCHANGED <<repoVars, histVars, refs, refHistory, heads, count,
                   total_commits, branch_count, repo_size, displayed, snapshot>>

\* get_contributor_count: the revwalk is exhausted, Ok(contributors.len())
ContribReturn ==
    /\ pc = "contrib_walk"
    /\ Pending(worklist) = {}
    /\ contributor_count' = Ok(Cardinality(contributors))
    /\ pc' = "size"
    /\ UNCHANGED <<repoVars, histVars, refs, refHistory, heads, worklist,
                   visited, count, contributors, total_commits, branch_count,
                   repo_size, displayed, exit_code, counted, snapshot>>

\* get_repository_size: the byte count of the metadata directory
RepositorySize ==
    /\ pc = "size"
    /\ IF fault.kind = "fs"
       THEN /\ repo_size' = Err
            /\ Fail
       ELSE /\ \E size \in DirSizes : repo_size' = Ok(size)
            /\ pc' = "display"
            /\ UNCHANGED exit_code
    /\ UNCHANGED <<repoVars, histVars, refs, refHistory, heads, worklist,
                   visited, count, contributors, total_commits, branch_count,
                   contributor_count, displayed, counted, snapshot>>

\* display_statistics, then run() returns Ok(())
Display ==
    /\ pc = "display"
    /\ displayed' = [shown |-> TRUE,
                     commits |-> FormatNumber(total_commits.val),
                     branches |-> branch_count.val,
                     contributors |-> contributor_count.val,
                     size |-> repo_size.val,
                     unit |-> SizeUnit(repo_size.val)]
    /\ pc' = "done"
    /\ exit_code' = 0
    /\ UNCHANGED <<repoVars, histVars, refs, refHistory, heads, worklist,
                   visited, count, contributors, total_commits, branch_count,
                   contributor_count, repo_size, counted, snapshot>>

\* another process moves a reference to another commit while run() executes
RefUpdate ==
    /\ pc # "done"
    /\ updates < MaxUpdates
    /\ \E r \in RefNames, c \in CommitIDs :
        /\ refs[r].kind = "direct"
        /\ refs[r].oid # c
        /\ refs' = [refs EXCEPT ![r] = Direct(c)]
    /\ refHistory' = refHistory \cup {refs'}
    /\ updates' = updates + 1
    /\ UNCHANGED <<repoVars, runs, previous, pc, heads, worklist, visited,
                   count, contributors, total_commits, branch_count,
                   contributor_count, repo_size, displayed, exit_code, counted,
                   snapshot>>

\* the program is invoked again on the same repository
Rerun ==
    /\ pc = "done"
    /\ runs < MaxRuns
    /\ runs' = runs + 1
    /\ previous' = [ran |-> TRUE, total |-> total_commits,
                    contributors |-> contributor_count]
    /\ pc' = "start"
    /\ heads' = <<>>
    /\ worklist' = EmptyBag
    /\ visited' = {}
    /\ count' = 0
    /\ contributors' = {}
    /\ total_commits' = NotRun
    /\ branch_count' = NotRun
    /\ contributor_count' = NotRun
    /\ repo_size' = NotRun
    /\ displayed' = NotDisplayed
    /\ exit_code' = -1
    /\ counted' = EmptyBag
    /\ snapshot' = [total |-> {}, contributors |-> {}]
    /\ UNCHANGED <<repoVars, refs, refHistory, updates>>

Next ==
    \/ Discover
    \/ TotalReferences
    \/ TotalPush
    \/ TotalWalk
    \/ TotalReturn
    \/ BranchCount
    \/ ContribReferences
    \/ ContribPush
    \/ ContribWalk
    \/ ContribReturn
    \/ RepositorySize
    \/ Display

\* one invocation of the program on a repository nothing else writes to
Spec == Init /\ [][Next]_vars

\* the program is single-threaded and always takes its next step
SpecLive == Spec /\ WF_vars(Next)

NextRerun == Next \/ Rerun

\* successive invocations of the program on the same repository
SpecRerun == Init /\ [][NextRerun]_vars

NextConcurrent == Next \/ RefUpdate

\* one invocation of the program while other processes move references
SpecConcurrent == Init /\ [][NextConcurrent]_vars

-----------------------------------------------------------------------------
\* What the repository determines

\* the commits a reference table t points at
HeadsIn(t) == {t[r].oid : r \in {x \in RefNames : t[x].kind = "direct"}}

\* the commits of S whose object parses and whose author name and email are
\* both readable strings
Readable(S) ==
    {c \in S : author[c].parsed /\ author[c].name.some /\ author[c].email.some}

\* the (name, email) pairs of the commits of S
Pairs(S) == {<<author[c].name.s, author[c].email.s>> : c \in S}

WalkPcs == {"total_walk", "contrib_walk"}

-----------------------------------------------------------------------------
\* C1: whenever get_total_commits returns Ok(n), n is the number of commits in
\* the union of the ancestries of the heads the walk was seeded with: a commit
\* reachable from several heads or along several paths is counted once.
TotalCommitsCountsReachable ==
    total_commits.st = "ok" =>
        total_commits.val = Cardinality(Reachable(snapshot.total))

\* two branches {X, Y} and {X, Z} that share X: the count returned is 3
WitnessSharedAncestor ==
    /\ total_commits = Ok(3)
    /\ \E y, z \in snapshot.total :
        /\ y # z
        /\ y \notin Ancestors(z)
        /\ z \notin Ancestors(y)
        /\ Ancestors(y) \cap Ancestors(z) # {}

\* C2: on a repository with no commit and no reference, on a store that can
\* be read, get_total_commits and get_contributor_count both return Ok(0).
EmptyRepositoryCountsZero ==
    (commits = 0 /\ Listed = {} /\ fault.kind # "store") =>
        /\ total_commits.st # "none" => total_commits = Ok(0)
        /\ contributor_count.st # "none" => contributor_count = Ok(0)
        /\ (pc = "done" /\ fault = NoFault) => contributor_count = Ok(0)

WitnessEmptyRepository ==
    /\ commits = 0
    /\ Listed = {}
    /\ pc = "done"
    /\ total_commits = Ok(0)
    /\ contributor_count = Ok(0)

\* C3: when every author the walk finds has a readable name and email,
\* get_contributor_count returns the number of distinct (name, email) pairs
\* of the commits reachable from the heads: the key "Name <email>" is the
\* same for two commits exactly when their names and their emails are equal.
ContributorsAreDistinctPairs ==
    LET R == Reachable(snapshot.contributors)
    IN (/\ contributor_count.st = "ok"
        /\ \A c \in R : author[c].parsed => c \in Readable(R)) =>
            contributor_count.val = Cardinality(Pairs(Readable(R)))

\* the same name under two emails counts twice, and a pair on two commits once
WitnessSameNameTwoEmails ==
    /\ contributor_count = Ok(2)
    /\ Cardinality(visited) = 3
    /\ \A c \in visited : c \in Readable(visited)
    /\ \A c, d \in visited : author[c].name = author[d].name
    /\ \E c, d \in visited : author[c].email # author[d].email
    /\ \E c, d \in visited : c # d /\ author[c] = author[d]

\* C4: a commit whose author name or email cannot be read is counted as a
\* commit and adds nothing to the contributor set.
UnreadableAuthorExcluded ==
    /\ total_commits.st = "ok" =>
           total_commits.val = Cardinality(Reachable(snapshot.total))
    /\ contributor_count.st = "ok" =>
           contributor_count.val =
               Cardinality(Pairs(Readable(Reachable(snapshot.contributors))))

\* C5: Ok(n) is returned only by a walk that visited everything reachable
\* from its heads, on a store whose references could be enumerated and whose
\* reachable commits could all be read; statistics are printed only when the
\* four collectors returned Ok.
NoPartialAggregate ==
    /\ total_commits.st = "ok" =>
        /\ fault.kind # "store"
        /\ fault.kind = "corrupt" => fault.at \notin Reachable(snapshot.total)
        /\ pc = "branches" => visited = Reachable(snapshot.total)
    /\ contributor_count.st = "ok" =>
        /\ fault.kind # "store"
        /\ fault.kind = "corrupt" =>
               fault.at \notin Reachable(snapshot.contributors)
        /\ pc = "size" => visited = Reachable(snapshot.contributors)
    /\ displayed.shown =>
        /\ total_commits.st = "ok"
        /\ branch_count.st = "ok"
        /\ contributor_count.st = "ok"
        /\ repo_size.st = "ok"
    /\ exit_code = 0 => displayed.shown

\* the walk had counted commits when it met the unreadable one: an error is
\* returned and nothing is printed
WitnessCorruptCommit ==
    /\ fault.kind = "corrupt"
    /\ pc = "done"
    /\ total_commits = Err
    /\ visited # {}
    /\ exit_code = 1
    /\ ~displayed.shown

\* C6: a reference that cannot be resolved to a commit is skipped: the
\* collector returns Ok with the count of the references that can.
UnresolvableReferenceSkipped ==
    (fault = NoFault /\ total_commits.st # "none") =>
        total_commits =
            Ok(Cardinality(Reachable(HeadsIn(refs) \ {NonCommitOid})))

\* C7: on a repository no process changed, the second invocation returns
\* what the first returned, whatever order the references were enumerated
\* in and whatever order the work list was emptied in.
RepeatableStatistics ==
    (runs > 1 /\ pc = "done" /\ updates = 0) =>
        /\ total_commits = previous.total
        /\ contributor_count = previous.contributors

WitnessSecondRun ==
    /\ runs > 1
    /\ pc = "done"
    /\ updates = 0
    /\ previous.total = Ok(3)
    /\ total_commits = Ok(3)
    /\ contributor_count = Ok(2)
    /\ Cardinality(Listed) = 2

\* C8: during a walk the visited set only grows, the running count is the
\* size of the visited set, and every commit passed visited.insert at most
\* once, the visited ones exactly once.
VisitedOnce ==
    /\ [](pc \in WalkPcs =>
            /\ \A c \in CommitIDs : counted[c] = (IF c \in visited THEN 1 ELSE 0)
            /\ pc = "total_walk" => count = Cardinality(visited)
            /\ pc = "contrib_walk" =>
                   contributors = {AuthorKey(author[c]) :
                                      c \in {d \in visited : FindCommit(d)}})
    /\ [][(pc \in WalkPcs) => (visited \subseteq visited')]_vars

\* a merge commit is visited, both its parents are visited and both are on
\* the work list again
WitnessMergeCommit ==
    /\ pc = "total_walk"
    /\ \E m \in visited :
        /\ Cardinality(parents[m]) = 2
        /\ parents[m] \subseteq visited
        /\ \A p \in parents[m] : worklist[p] > 0
        /\ counted[m] = 1
    /\ count = Cardinality(visited)

\* C9: the program reaches its end, so both walks end, and when a walk ends
\* with the work list empty the visited set holds every commit reachable
\* from the heads.
TraversalTerminates ==
    /\ <>(pc = "done")
    /\ [](pc = "branches" => visited = Reachable(snapshot.total))

\* the walk ended although a commit with two children was put on the work
\* list twice, and a root commit was visited
WitnessDuplicatePush ==
    /\ pc = "branches"
    /\ Pending(worklist) = {}
    /\ \E c \in visited : parents[c] = {}
    /\ \E c \in visited : Cardinality({d \in visited : c \in parents[d]}) = 2

\* C10: the two numbers printed are the aggregates of one reference table
\* the repository had.
SingleSnapshot ==
    displayed.shown =>
        \E t \in refHistory :
            /\ HeadsIn(t) \subseteq CommitIDs
            /\ total_commits.val = Cardinality(Reachable(HeadsIn(t)))
            /\ contributor_count.val =
                   Cardinality({AuthorKey(author[c]) :
                       c \in {d \in Reachable(HeadsIn(t)) : FindCommit(d)}})

====
